---- MODULE Spec2Model ----
(***************************************************************************)
(* Model of the process-orchestration core of firefly-cli:                 *)
(*   - docker.runCommand / pipeCommand / readPipe  (specification Spec)    *)
(*   - docker.RunDockerCommandRetry                (RetrySpec)             *)
(*   - docker.RunDockerComposeCommand              (ComposeSpec)           *)
(*   - EthSignerProvider.FirstTimeSetup            (SetupSpec)             *)
(*   - EthSignerProvider.WriteConfig               (WriteConfigSpec)       *)
(*   - EthSignerProvider.getCommand                (CommandSpec)           *)
(*   - RunDockerCommandRetry over runCommand       (SequenceSpec)          *)
(* Strings are sequences of one-character strings.                         *)
(***************************************************************************)
EXTENDS Integers, Sequences, FiniteSets, TLC

\* ------------------------------------------------------------------ bounds

\* Most bytes the external process writes, both streams together.
MaxWrite == 3

\* Capacity, in bytes, of the kernel buffer of one pipe.
PipeCap == 1

\* Largest retry count given to RunDockerCommandRetry.
MaxRetries == 2

\* Longest argument list given to RunDockerComposeCommand.
MaxArgs == 2

\* Most bytes the process of a retried command writes, both streams together.
MaxSeqWrite == 2

\* Most members of a stack.
MaxMembers == 3

\* Most members of a stack whose configuration WriteConfig writes.
MaxConfigMembers == 2

\* ------------------------------------------------------- strings and bytes

NL == "\n"

Streams == {"stdout", "stderr"}

\* The byte (other than newline) the process writes on a stream.
ByteOf(s) == IF s = "stdout" THEN "o" ELSE "e"

SeqsUpTo(S, n) == UNION {[1..k -> S] : k \in 0..n}

\* Every byte sequence the process may write to stream s.
Scripts(s) == SeqsUpTo({ByteOf(s), NL}, MaxWrite)

ExitCodes == {0, 1}

\* Index of the first newline of b, 0 when there is none.
IndexOfNL(b) ==
    IF \E i \in 1..Len(b) : b[i] = NL
    THEN CHOOSE i \in 1..Len(b) : b[i] = NL /\ \A j \in 1..(i - 1) : b[j] # NL
    ELSE 0

Other(s) == IF s = "stdout" THEN "stderr" ELSE "stdout"

\* ------------------------------------------------------------------- state

VARIABLES
    \* runCommand: the context and the command (inputs)
    verbose,        \* log.VerbosityFromContext(ctx)
    isLogCmd,       \* ctx.Value(CtxIsLogCmdKey{})
    ctxCanceled,    \* whether ctx has been canceled
    \* the external process (environment)
    script,         \* [stream -> bytes the process writes]
    exitCode,       \* the code the process exits with
    hangs,          \* the process never closes its streams nor exits
    launch,         \* "ok", "pipeErr" (StdoutPipe/StderrPipe fails), "startErr"
    faultAt,        \* the stream whose reads may fail, or "none"
    procState,      \* "unstarted", "running", "exited"
    procPos,        \* [stream -> number of bytes written so far]
    procOpen,       \* [stream -> the process still holds the write end]
    pipe,           \* [stream -> bytes in the kernel buffer]
    readEndClosed,  \* the read ends were closed (by a failed Start, or by Wait)
    \* goroutines
    pipeCmdPc,      \* pipeCommand: "run", "sendErr", "done"
    rdPc,           \* readPipe per stream: "idle", "read", "send", "sendErr", "done"
    rdBuf,          \* readPipe per stream: bytes held by the bufio.Reader
    rdLine,         \* readPipe per stream: the line being sent
    chanClosed,     \* [stream -> its line channel is closed]
    \* runCommand
    mainPc,         \* "loop", "wait", "returned"
    outputBuff,     \* strings.Builder
    result,         \* what runCommand returned
    appended,       \* history: <<stream, line>> of every WriteString
    printed         \* history: <<stream, line>> of every fmt.Print of a line

VARIABLES
    \* RunDockerCommandRetry
    retries,        \* the retries argument
    behaviour,      \* environment: the outcome of the i-th invocation
    attempt,        \* the local attempt
    invoked,        \* number of RunDockerCommand calls made so far
    retryPc,        \* "call", "done"
    retryErr,       \* the returned error, NoErr for none
    \* RunDockerComposeCommand
    composeVersion, \* ctx.Value(CtxComposeVersionKey{}), "unset" when absent
    composeArgs,    \* the command arguments
    composeRun,     \* environment: whether the issued command succeeds
    issued,         \* the commands handed to runCommand
    composePc,      \* "call", "done"
    composeErr,     \* the returned error, "nil" for none
    \* FirstTimeSetup
    members,        \* p.Stack.Members, the account addresses in declared order
    setupPc,        \* "createVolume", "mkdirContracts", "copyConfig",
                    \* "import", "copyPassword", "done"
    importIdx,      \* index of the member the import loop is at
    setupLog,       \* the sub-steps issued so far, each with its outcome
    setupErr,       \* the returned error, NoStepErr for none
    \* WriteConfig
    fs,             \* the host file system under the init directory
    wcPc,           \* "mkdir", "password", "config", "key", "toml", "done"
    wcIdx,          \* index of the member the loop is at
    wcLog,          \* the steps of this run, each with its outcome
    wcRet,          \* what this run returned: "none", "nil", or a step's error
    wcRun,          \* 1 for the first run, 2 for the run that repeats it
    wcFirst,        \* the file system and the result the first run left
    \* getCommand
    useJavaSigner,  \* the constant of line 38
    urlParts,       \* the scheme, host, port and path the RPC URL is made of
    rpcURL,         \* the RPC URL, as the sequence of its tokens
    chainID,        \* p.Stack.ChainID()
    command,        \* the arguments getCommand built
    cmdPc,          \* "call", "done", "panic"
    \* successive invocations
    leaked          \* processes of returned invocations that are still alive

retryVars == <<retries, behaviour, attempt, invoked, retryPc, retryErr>>

composeVars == <<composeVersion, composeArgs, composeRun, issued, composePc,
                 composeErr>>

setupVars == <<members, setupPc, importIdx, setupLog, setupErr>>

wcVars == <<fs, wcPc, wcIdx, wcLog, wcRet, wcRun, wcFirst>>

cmdVars == <<useJavaSigner, urlParts, rpcURL, chainID, command, cmdPc>>

runVars == <<verbose, isLogCmd, ctxCanceled, script, exitCode, hangs, launch,
             faultAt, procState, procPos, procOpen, pipe, readEndClosed,
             pipeCmdPc, rdPc, rdBuf, rdLine, chanClosed, mainPc, outputBuff,
             result, appended, printed>>

\* An error value: its kind and what its message holds.
Err(kind, cmdline, code, output) ==
    [kind |-> kind, cmdline |-> cmdline, code |-> code, output |-> output]

\* The nil error.
NilErr == Err("nil", FALSE, 0, <<>>)

NoResult == [status |-> "none", output |-> <<>>, err |-> NilErr]

\* The error of a failed pipe read or pipe creation: the message of the
\* operating system, nothing of the invocation.
IoErr(kind) == Err(kind, FALSE, 0, <<>>)

RunInit ==
    /\ verbose \in BOOLEAN
    /\ isLogCmd \in BOOLEAN
    /\ ctxCanceled = FALSE
    /\ launch \in {"ok", "pipeErr", "startErr"}
    /\ script \in [Streams -> UNION {Scripts(s) : s \in Streams}]
    /\ \A s \in Streams : script[s] \in Scripts(s)
    /\ Len(script["stdout"]) + Len(script["stderr"]) <= MaxWrite
    /\ exitCode \in ExitCodes
    /\ hangs \in BOOLEAN
    /\ faultAt \in {"none"} \cup Streams
    \* a process that never starts writes nothing and has no exit code
    /\ launch # "ok" =>
          /\ script = [s \in Streams |-> <<>>]
          /\ exitCode = 0 /\ ~hangs /\ faultAt = "none"
    /\ hangs => exitCode = 0
    /\ procState = "unstarted"
    /\ procPos = [s \in Streams |-> 0]
    /\ procOpen = [s \in Streams |-> TRUE]
    /\ pipe = [s \in Streams |-> <<>>]
    /\ readEndClosed = FALSE
    /\ pipeCmdPc = "run"
    /\ rdPc = [s \in Streams |-> "idle"]
    /\ rdBuf = [s \in Streams |-> <<>>]
    /\ rdLine = [s \in Streams |-> <<>>]
    /\ chanClosed = [s \in Streams |-> FALSE]
    /\ mainPc = "loop"
    /\ outputBuff = <<>>
    /\ result = NoResult
    /\ appended = <<>>
    /\ printed = <<>>

\* What no step of an invocation changes: its inputs, and the state of the
\* other procedures.
inputs == <<verbose, isLogCmd, script, exitCode, hangs, launch, faultAt,
            retryVars, composeVars, setupVars, wcVars, cmdVars, leaked>>

\* ------------------------------------------------------ the external process

\* The process writes the next byte of its script to a stream whose pipe has room.
ProcWrite(s) ==
    /\ procState = "running"
    /\ procOpen[s]
    /\ procPos[s] < Len(script[s])
    /\ Len(pipe[s]) < PipeCap
    /\ pipe' = [pipe EXCEPT ![s] = Append(@, script[s][procPos[s] + 1])]
    /\ procPos' = [procPos EXCEPT ![s] = @ + 1]
    /\ UNCHANGED <<inputs, ctxCanceled, procState, procOpen, readEndClosed,
                   pipeCmdPc, rdPc, rdBuf, rdLine, chanClosed, mainPc,
                   outputBuff, result, appended, printed>>

\* The process closes one stream early, once it has written all of it, while
\* it keeps the other one.
ProcClose(s) ==
    /\ procState = "running"
    /\ ~hangs
    /\ procOpen[s]
    /\ procOpen[Other(s)]
    /\ procPos[s] = Len(script[s])
    /\ procOpen' = [procOpen EXCEPT ![s] = FALSE]
    /\ UNCHANGED <<inputs, ctxCanceled, procState, procPos, pipe, readEndClosed,
                   pipeCmdPc, rdPc, rdBuf, rdLine, chanClosed, mainPc,
                   outputBuff, result, appended, printed>>

\* The process exits once it has written everything; exiting closes the
\* streams it still holds.
ProcExit ==
    /\ procState = "running"
    /\ ~hangs
    /\ \A s \in Streams : procOpen[s] => procPos[s] = Len(script[s])
    /\ procOpen' = [s \in Streams |-> FALSE]
    /\ procState' = "exited"
    /\ UNCHANGED <<inputs, ctxCanceled, procPos, pipe, readEndClosed,
                   pipeCmdPc, rdPc, rdBuf, rdLine, chanClosed, mainPc,
                   outputBuff, result, appended, printed>>

\* -------------------------------------------------------------- pipeCommand

\* cmd.StdoutPipe(), cmd.StderrPipe(), cmd.Start(), go readPipe x 2.
\* The result of cmd.Start() is discarded; a Start that fails has closed the
\* read ends of both pipes and started no process.
pipeCommand ==
    /\ pipeCmdPc = "run"
    /\ IF launch = "pipeErr"
       THEN /\ pipeCmdPc' = "sendErr"
            /\ UNCHANGED <<procState, readEndClosed, rdPc>>
       ELSE /\ pipeCmdPc' = "done"
            /\ procState' = IF launch = "startErr" THEN "unstarted" ELSE "running"
            /\ readEndClosed' = (launch = "startErr")
            /\ rdPc' = [s \in Streams |-> "read"]
    /\ UNCHANGED <<inputs, ctxCanceled, procPos, procOpen, pipe, rdBuf, rdLine,
                   chanClosed, mainPc, outputBuff, result, appended, printed>>

\* ----------------------------------------------------------------- readPipe

\* A ReadString that loses the first byte of the line it returns.
ReadStringDropsByte(b) ==
    LET i == IndexOfNL(b)
    IN  [found |-> i > 0,
         line  |-> SubSeq(b, 2, i),
         rest  |-> SubSeq(b, i + 1, Len(b))]

\* buf.ReadString('\n') on the bytes the bufio.Reader holds: the line through
\* the first newline, and what stays buffered.
ReadString(b) ==
    LET i == IndexOfNL(b)
    IN  [found |-> i > 0,
         line  |-> SubSeq(b, 1, i),
         rest  |-> SubSeq(b, i + 1, Len(b))]

\* What the drainer does at end of input: the bytes ReadString returned with
\* io.EOF (an unterminated last line) are not sent; the channel is closed.
AtEOF(s) ==
    /\ chanClosed' = [chanClosed EXCEPT ![s] = TRUE]
    /\ rdPc' = [rdPc EXCEPT ![s] = "done"]
    /\ rdBuf' = [rdBuf EXCEPT ![s] = <<>>]
    /\ UNCHANGED <<pipe, rdLine>>

\* One step of line 385: return a line already buffered, fail on a closed
\* read end, take what the pipe holds (and return its first line when it
\* completes one), or reach end of input.
readPipeRead(s) ==
    /\ rdPc[s] = "read"
    /\ LET r == ReadString(rdBuf[s])
           f == ReadString(rdBuf[s] \o pipe[s])
       IN  IF r.found
           THEN /\ rdLine' = [rdLine EXCEPT ![s] = r.line]
                /\ rdBuf' = [rdBuf EXCEPT ![s] = r.rest]
                /\ rdPc' = [rdPc EXCEPT ![s] = "send"]
                /\ UNCHANGED <<pipe, chanClosed>>
           ELSE IF readEndClosed
           THEN /\ rdPc' = [rdPc EXCEPT ![s] = "sendErr"]
                /\ UNCHANGED <<pipe, rdBuf, rdLine, chanClosed>>
           ELSE IF pipe[s] # <<>>
           THEN /\ pipe' = [pipe EXCEPT ![s] = <<>>]
                /\ IF f.found
                   THEN /\ rdLine' = [rdLine EXCEPT ![s] = f.line]
                        /\ rdBuf' = [rdBuf EXCEPT ![s] = f.rest]
                        /\ rdPc' = [rdPc EXCEPT ![s] = "send"]
                   ELSE /\ rdBuf' = [rdBuf EXCEPT ![s] = @ \o pipe[s]]
                        /\ UNCHANGED <<rdPc, rdLine>>
                /\ UNCHANGED chanClosed
           ELSE /\ ~procOpen[s]
                /\ AtEOF(s)
    /\ UNCHANGED <<inputs, ctxCanceled, procState, procPos, procOpen,
                   readEndClosed, pipeCmdPc, mainPc, outputBuff, result,
                   appended, printed>>

\* A read of the pipe fails with an error other than io.EOF.
readPipeFault(s) ==
    /\ rdPc[s] = "read"
    /\ faultAt = s
    /\ ~ReadString(rdBuf[s]).found
    /\ rdPc' = [rdPc EXCEPT ![s] = "sendErr"]
    /\ UNCHANGED <<inputs, ctxCanceled, procState, procPos, procOpen, pipe,
                   readEndClosed, pipeCmdPc, rdBuf, rdLine, chanClosed, mainPc,
                   outputBuff, result, appended, printed>>

\* --------------------------------------------------------------- runCommand

\* Whether lines of a stream are echoed (lines 339-344 and 350-352).
Echoes(s) == IF s = "stdout" THEN isLogCmd \/ verbose ELSE verbose

\* Whether a closed channel of stream s ends the loop (lines 339-342, 347-349).
BreaksOnClose(s) == IF s = "stdout" THEN isLogCmd \/ verbose ELSE TRUE

\* case s, ok := <-stdoutChan / <-stderrChan: a line from a sending drainer
\* (the channels are unbuffered), or the zero value of a closed channel.
runCommandRecv(s) ==
    /\ mainPc = "loop"
    /\ \/ /\ rdPc[s] = "send"
          /\ rdPc' = [rdPc EXCEPT ![s] = "read"]
          /\ outputBuff' = outputBuff \o rdLine[s]
          /\ appended' = Append(appended, <<s, rdLine[s]>>)
          /\ printed' = IF Echoes(s) THEN Append(printed, <<s, rdLine[s]>>)
                        ELSE printed
          /\ UNCHANGED mainPc
       \/ /\ chanClosed[s]
          /\ mainPc' = IF BreaksOnClose(s) THEN "wait" ELSE "loop"
          \* otherwise outputBuff.WriteString("") : nothing changes
          /\ UNCHANGED <<rdPc, outputBuff, appended, printed>>
    /\ UNCHANGED <<inputs, ctxCanceled, procState, procPos, procOpen, pipe,
                   readEndClosed, pipeCmdPc, rdBuf, rdLine, chanClosed, result>>

\* case err := <-errChan: return "", err.  The sender is pipeCommand or a
\* drainer; a drainer goes on to close its line channel.
runCommandRecvErr ==
    /\ mainPc = "loop"
    /\ \/ /\ pipeCmdPc = "sendErr"
          /\ pipeCmdPc' = "done"
          /\ result' = [status |-> "err", output |-> <<>>, err |-> IoErr("pipe")]
          /\ UNCHANGED <<rdPc, chanClosed>>
       \/ \E s \in Streams :
          /\ rdPc[s] = "sendErr"
          /\ rdPc' = [rdPc EXCEPT ![s] = "done"]
          /\ chanClosed' = [chanClosed EXCEPT ![s] = TRUE]
          /\ result' = [status |-> "err", output |-> <<>>, err |-> IoErr("read")]
          /\ UNCHANGED pipeCmdPc
    /\ mainPc' = "returned"
    /\ UNCHANGED <<inputs, ctxCanceled, procState, procPos, procOpen, pipe,
                   readEndClosed, rdBuf, rdLine, outputBuff, appended, printed>>

\* The value runCommand returns after cmd.Wait() (lines 359-363).
Classify(statusCode, buff) ==
    IF statusCode # 0
    THEN [status |-> "err", output |-> <<>>,
          err |-> Err("exit", TRUE, statusCode, buff)]
    ELSE [status |-> "ok", output |-> buff, err |-> NilErr]

\* cmd.Wait() returns once the process has exited, and closes the read ends
\* of the pipes; then the exit code decides the result.
runCommandWait ==
    /\ mainPc = "wait"
    /\ procState = "exited"
    /\ readEndClosed' = TRUE
    /\ result' = Classify(exitCode, outputBuff)
    /\ mainPc' = "returned"
    /\ UNCHANGED <<inputs, ctxCanceled, procState, procPos, procOpen, pipe,
                   pipeCmdPc, rdPc, rdBuf, rdLine, chanClosed, outputBuff,
                   appended, printed>>

\* The caller cancels the context of the invocation in flight.  Nothing in
\* runCommand, pipeCommand or readPipe reads ctx.Done(); the command is built
\* with exec.Command, not exec.CommandContext.
CancelContext ==
    /\ mainPc # "returned"
    /\ ~ctxCanceled
    /\ ctxCanceled' = TRUE
    /\ UNCHANGED <<inputs, procState, procPos, procOpen, pipe, readEndClosed,
                   pipeCmdPc, rdPc, rdBuf, rdLine, chanClosed, mainPc,
                   outputBuff, result, appended, printed>>

RunNext ==
    \/ pipeCommand
    \/ \E s \in Streams : ProcWrite(s)
    \/ \E s \in Streams : ProcClose(s)
    \/ ProcExit
    \/ \E s \in Streams : readPipeRead(s)
    \/ \E s \in Streams : readPipeFault(s)
    \/ \E s \in Streams : runCommandRecv(s)
    \/ runCommandRecvErr
    \/ runCommandWait

\* The state of an invocation that is not being looked at.
RunIdle ==
    /\ verbose = FALSE /\ isLogCmd = FALSE /\ ctxCanceled = FALSE
    /\ launch = "ok" /\ script = [s \in Streams |-> <<>>]
    /\ exitCode = 0 /\ hangs = FALSE /\ faultAt = "none"
    /\ procState = "unstarted"
    /\ procPos = [s \in Streams |-> 0]
    /\ procOpen = [s \in Streams |-> TRUE]
    /\ pipe = [s \in Streams |-> <<>>]
    /\ readEndClosed = FALSE
    /\ pipeCmdPc = "run"
    /\ rdPc = [s \in Streams |-> "idle"]
    /\ rdBuf = [s \in Streams |-> <<>>]
    /\ rdLine = [s \in Streams |-> <<>>]
    /\ chanClosed = [s \in Streams |-> FALSE]
    /\ mainPc = "loop"
    /\ outputBuff = <<>>
    /\ result = NoResult
    /\ appended = <<>>
    /\ printed = <<>>

\* ---------------------------------------------------- RunDockerCommandRetry

\* How one invocation of RunDockerCommand ends: success, a non-zero exit, a
\* process that could not be started, a failed read of a pipe.
Outcomes == {"ok", "exitErr", "launchErr", "readErr"}

\* The nil error of RunDockerCommand and RunDockerCommandRetry.
NoErr == [kind |-> "nil", invocation |-> 0]

\* The error RunDockerCommand returns for its n-th invocation.
RunDockerCommand(n) ==
    IF behaviour[n] = "ok" THEN NoErr ELSE [kind |-> behaviour[n], invocation |-> n]

RetryInit ==
    /\ retries \in 0..MaxRetries
    /\ behaviour \in [1..(MaxRetries + 2) -> Outcomes]
    /\ attempt = 0
    /\ invoked = 0
    /\ retryPc = "call"
    /\ retryErr = NoErr

RetryIdle ==
    /\ retries = 0
    /\ behaviour = [i \in 1..(MaxRetries + 2) |-> "ok"]
    /\ attempt = 0
    /\ invoked = 0
    /\ retryPc = "call"
    /\ retryErr = NoErr

\* The condition of line 282 under which a failed attempt is repeated.
CanRetryOffByOne(a, r) == a <= r

CanRetry(a, r) == a < r

\* One iteration of the loop of RunDockerCommandRetry: the call, then
\* attempt++ and continue, or return err, or break and return nil.
RunDockerCommandRetry ==
    /\ retryPc = "call"
    /\ invoked < MaxRetries + 2
    /\ invoked' = invoked + 1
    /\ LET err == RunDockerCommand(invoked + 1)
       IN  IF err # NoErr /\ CanRetry(attempt, retries)
           THEN /\ attempt' = attempt + 1
                /\ UNCHANGED <<retryPc, retryErr>>
           ELSE /\ retryErr' = err
                /\ retryPc' = "done"
                /\ UNCHANGED attempt
    /\ UNCHANGED <<retries, behaviour, composeVars, setupVars, wcVars, cmdVars,
                   leaked, runVars>>

RetryNext == RunDockerCommandRetry

\* -------------------------------------------------- RunDockerComposeCommand

ComposeVersions == {"unset", "None", "ComposeV1", "ComposeV2"}

ArgWords == {"up", "-d"}

Cmd(path, args) == [path |-> path, args |-> args]

ComposeInit ==
    /\ composeVersion \in ComposeVersions
    /\ composeArgs \in SeqsUpTo(ArgWords, MaxArgs)
    /\ composeRun \in BOOLEAN
    /\ issued = <<>>
    /\ composePc = "call"
    /\ composeErr = "nil"

ComposeIdle ==
    /\ composeVersion = "unset"
    /\ composeArgs = <<>>
    /\ composeRun = TRUE
    /\ issued = <<>>
    /\ composePc = "call"
    /\ composeErr = "nil"

\* The commands the switch of lines 301-314 builds: none in the default case.
ComposeCommandsNoPrefix(version, args) ==
    IF version = "ComposeV1" THEN <<Cmd("docker-compose", args)>>
    ELSE IF version = "ComposeV2" THEN <<Cmd("docker", args)>>
    ELSE <<>>

ComposeCommands(version, args) ==
    IF version = "ComposeV1" THEN <<Cmd("docker-compose", args)>>
    ELSE IF version = "ComposeV2" THEN <<Cmd("docker", <<"compose">> \o args)>>
    ELSE <<>>

RunDockerComposeCommand ==
    /\ composePc = "call"
    /\ LET cmds == ComposeCommands(composeVersion, composeArgs)
       IN  /\ issued' = issued \o cmds
           /\ composeErr' = IF cmds = <<>> THEN "noComposeVersion"
                             ELSE IF composeRun THEN "nil" ELSE "runCommandErr"
    /\ composePc' = "done"
    /\ UNCHANGED <<composeVersion, composeArgs, composeRun, retryVars,
                   setupVars, wcVars, cmdVars, leaked, runVars>>

ComposeNext == RunDockerComposeCommand

\* ----------------------------------------------------------- FirstTimeSetup

Addresses == 1..MaxMembers

\* The nil error of FirstTimeSetup.
NoStepErr == [op |-> "nil", arg |-> 0]

\* The member lists of a stack: distinct accounts in any declared order.
MemberLists ==
    {m \in SeqsUpTo(Addresses, MaxMembers) :
        \A i, j \in 1..Len(m) : i # j => m[i] # m[j]}

SetupInit ==
    /\ members \in MemberLists
    /\ setupPc = "createVolume"
    /\ importIdx = 1
    /\ setupLog = <<>>
    /\ setupErr = NoStepErr

SetupIdle ==
    /\ members = <<>>
    /\ setupPc = "createVolume"
    /\ importIdx = 1
    /\ setupLog = <<>>
    /\ setupErr = NoStepErr

Step(op, arg, ok) == [op |-> op, arg |-> arg, ok |-> ok]

\* The error of a failed sub-step; arg is the member of an import, else 0.
StepErr(op, arg) == [op |-> op, arg |-> arg]

\* Where FirstTimeSetup goes after a sub-step whose error it checks: return
\* the error, or go on to `next`.
Checked(step, next) ==
    /\ setupLog' = Append(setupLog, step)
    /\ IF step.ok
       THEN /\ setupPc' = next
            /\ UNCHANGED setupErr
       ELSE /\ setupPc' = "done"
            /\ setupErr' = StepErr(step.op, step.arg)

\* Lines 84-86: docker.CreateVolume(ethsignerVolumeName).
SetupCreateVolume ==
    /\ setupPc = "createVolume"
    /\ \E ok \in BOOLEAN : Checked(Step("createVolume", 0, ok), "mkdirContracts")
    /\ UNCHANGED <<members, importIdx, retryVars, composeVars, wcVars, cmdVars,
                   leaked, runVars>>

\* Lines 88-90: os.MkdirAll(contractsDir).
SetupMkdirContracts ==
    /\ setupPc = "mkdirContracts"
    /\ \E ok \in BOOLEAN : Checked(Step("mkdirContracts", 0, ok), "copyConfig")
    /\ UNCHANGED <<members, importIdx, retryVars, composeVars, wcVars, cmdVars,
                   leaked, runVars>>

\* Where the import loop goes next (lines 99-104).
AfterImportKeepGoing(ok, i, n) == IF i < n THEN "import" ELSE "copyPassword"

AfterImport(ok, i, n) ==
    IF ~ok THEN "done" ELSE IF i < n THEN "import" ELSE "copyPassword"

\* Line 95: docker.CopyFileToVolume(signerConfigVolumeName, ...); its result
\* is not looked at.  Then the loop starts, or is skipped when there is no
\* member.
SetupCopyConfig ==
    /\ setupPc = "copyConfig"
    /\ \E ok \in BOOLEAN :
          setupLog' = Append(setupLog, Step("copyConfig", 0, ok))
    /\ setupPc' = IF Len(members) > 0 THEN "import" ELSE "copyPassword"
    /\ UNCHANGED <<members, importIdx, setupErr, retryVars, composeVars, wcVars, cmdVars, leaked,
                   runVars>>

\* Lines 99-104: p.importAccountToEthsigner(account.Address) for the member
\* the loop is at.
SetupImport ==
    /\ setupPc = "import"
    /\ \E ok \in BOOLEAN :
          LET step == Step("import", members[importIdx], ok)
              next == AfterImport(ok, importIdx, Len(members))
          IN  /\ setupLog' = Append(setupLog, step)
              /\ setupPc' = next
              /\ setupErr' = IF next = "done" THEN StepErr("import", step.arg)
                              ELSE setupErr
    /\ importIdx' = importIdx + 1
    /\ UNCHANGED <<members, retryVars, composeVars, wcVars, cmdVars, leaked, runVars>>

\* Lines 107-111: docker.CopyFileToVolume(ethsignerVolumeName, password).
SetupCopyPassword ==
    /\ setupPc = "copyPassword"
    /\ \E ok \in BOOLEAN : Checked(Step("copyPassword", 0, ok), "done")
    /\ UNCHANGED <<members, importIdx, retryVars, composeVars, wcVars, cmdVars,
                   leaked, runVars>>

SetupNext ==
    \/ SetupCreateVolume
    \/ SetupMkdirContracts
    \/ SetupCopyConfig
    \/ SetupImport
    \/ SetupCopyPassword

\* -------------------------------------------------------------- WriteConfig

\* Paths are sequences of names below the directory of the stack.
InitDir == <<"init">>

BlockchainDir == <<"init", "blockchain">>

PasswordPath == <<"init", "blockchain", "password">>

ConfigDir == <<"init", "config">>

SignerConfigPath == <<"init", "config", "ethsigner.yaml">>

KeyPath(a) == <<"init", "blockchain", "key", ToString(a)>>

TomlPath(a) == <<"init", "blockchain", "toml", ToString(a)>>

ConfigAddresses == 1..MaxConfigMembers

KeyDirs == {<<"init", "blockchain", "key">>, <<"init", "blockchain", "toml">>}

Paths ==
    {InitDir, BlockchainDir, PasswordPath, ConfigDir, SignerConfigPath}
        \cup KeyDirs
        \cup {KeyPath(a) : a \in ConfigAddresses}
        \cup {TomlPath(a) : a \in ConfigAddresses}

Parent(p) == SubSeq(p, 1, Len(p) - 1)

Absent == [kind |-> "absent", data |-> ""]

Dir == [kind |-> "dir", data |-> ""]

File(data) == [kind |-> "file", data |-> data]

\* The directory of the stack itself exists.
IsDir(f, p) == p = <<>> \/ f[p].kind = "dir"

\* A file system in which whatever exists lies in a directory.
Consistent(f) == \A p \in Paths : f[p] # Absent => IsDir(f, Parent(p))

\* os.MkdirAll(p): nothing to do for a directory that exists, an error for a
\* file in the way, else the parents first and then the directory.
RECURSIVE MkdirAll(_, _)
MkdirAll(f, p) ==
    IF IsDir(f, p) THEN [ok |-> TRUE, fs |-> f]
    ELSE IF f[p] # Absent THEN [ok |-> FALSE, fs |-> f]
    ELSE LET up == MkdirAll(f, Parent(p))
         IN  IF ~up.ok THEN up
             ELSE [ok |-> TRUE, fs |-> [up.fs EXCEPT ![p] = Dir]]

\* A WriteFile that does not overwrite: it fails on a file that exists.
WriteFileExclusive(f, p, data) ==
    IF ~IsDir(f, Parent(p)) \/ f[p] # Absent THEN [ok |-> FALSE, fs |-> f]
    ELSE [ok |-> TRUE, fs |-> [f EXCEPT ![p] = File(data)]]

\* ioutil.WriteFile(p, data): creates or truncates the file; fails when the
\* parent is no directory or p is a directory.
WriteFile(f, p, data) ==
    IF ~IsDir(f, Parent(p)) \/ f[p] = Dir THEN [ok |-> FALSE, fs |-> f]
    ELSE [ok |-> TRUE, fs |-> [f EXCEPT ![p] = File(data)]]

\* GenerateSignerConfig(chainID, rpcURL).WriteConfig(path): writes the
\* rendered configuration to the path.
SignerConfigWriteConfig(f) == WriteFile(f, SignerConfigPath, "signerconfig")

\* p.writeAccountToDisk: the key file of a member, in its directory.
writeAccountToDisk(f, a) ==
    LET d == MkdirAll(f, Parent(KeyPath(a)))
    IN  IF ~d.ok THEN d ELSE WriteFile(d.fs, KeyPath(a), "privatekey")

\* p.writeTomlKeyFile: the descriptor that refers to the key file of a member.
writeTomlKeyFile(f, a) ==
    LET d == MkdirAll(f, Parent(TomlPath(a)))
    IN  IF ~d.ok THEN d ELSE WriteFile(d.fs, TomlPath(a), "descriptor")

\* The file systems WriteConfig may start from: any consistent one, its files
\* holding older contents.
InitialFileSystems ==
    {f \in [Paths -> {Absent, Dir, File("stale")}] : Consistent(f)}

ConfigMemberLists == {[i \in 1..n |-> i] : n \in 0..MaxConfigMembers}

WcInit ==
    /\ members \in ConfigMemberLists
    /\ fs \in InitialFileSystems
    /\ wcPc = "mkdir"
    /\ wcIdx = 1
    /\ wcLog = <<>>
    /\ wcRet = "none"
    /\ wcRun = 1
    /\ wcFirst = [fs |-> fs, ret |-> "none"]

WcIdle ==
    /\ fs = [p \in Paths |-> Absent]
    /\ wcPc = "mkdir"
    /\ wcIdx = 1
    /\ wcLog = <<>>
    /\ wcRet = "none"
    /\ wcRun = 1
    /\ wcFirst = [fs |-> fs, ret |-> "none"]

WcStep(op, ok) == [op |-> op, ok |-> ok]

\* What no step of WriteConfig changes.
wcFixed == <<members, setupPc, importIdx, setupLog, setupErr, retryVars,
             composeVars, cmdVars, leaked, runVars>>

\* A step of WriteConfig whose error is returned as it is: `if err := ...;
\* err != nil { return err }`.
WcChecked(op, r, next) ==
    /\ fs' = r.fs
    /\ wcLog' = Append(wcLog, WcStep(op, r.ok))
    /\ wcPc' = IF r.ok THEN next ELSE "done"
    /\ wcRet' = IF r.ok THEN (IF next = "done" THEN "nil" ELSE wcRet) ELSE op

\* Where WriteConfig goes after the signer configuration: the member loop,
\* or the end when there is no member.
WcLoopEntry == IF Len(members) > 0 THEN "key" ELSE "done"

\* Lines 50-54: os.MkdirAll(blockchainDirectory).
WriteConfigMkdir ==
    /\ wcPc = "mkdir"
    /\ WcChecked("mkdir", MkdirAll(fs, BlockchainDir), "password")
    /\ UNCHANGED <<wcIdx, wcRun, wcFirst, wcFixed>>

\* Lines 55-57: the password file.
WriteConfigPassword ==
    /\ wcPc = "password"
    /\ WcChecked("password",
                 WriteFile(fs, PasswordPath, "correcthorsebatterystaple"),
                 "config")
    /\ UNCHANGED <<wcIdx, wcRun, wcFirst, wcFixed>>

\* Lines 59-62: the signer configuration; on an error WriteConfig returns nil.
WriteConfigSignerConfig ==
    /\ wcPc = "config"
    /\ LET r == SignerConfigWriteConfig(fs)
       IN  /\ fs' = r.fs
           /\ wcLog' = Append(wcLog, WcStep("config", r.ok))
           /\ wcPc' = IF r.ok THEN WcLoopEntry ELSE "done"
           /\ wcRet' = IF r.ok /\ WcLoopEntry # "done" THEN wcRet ELSE "nil"
    /\ UNCHANGED <<wcIdx, wcRun, wcFirst, wcFixed>>

\* Lines 64-69: the key file of the member the loop is at.
WriteConfigKey ==
    /\ wcPc = "key"
    /\ WcChecked("key", writeAccountToDisk(fs, members[wcIdx]), "toml")
    /\ UNCHANGED <<wcIdx, wcRun, wcFirst, wcFixed>>

\* Lines 71-76: the descriptor of that member, then the next member or
\* return nil.
WriteConfigToml ==
    /\ wcPc = "toml"
    /\ WcChecked("toml", writeTomlKeyFile(fs, members[wcIdx]),
                 IF wcIdx < Len(members) THEN "key" ELSE "done")
    /\ wcIdx' = wcIdx + 1
    /\ UNCHANGED <<wcRun, wcFirst, wcFixed>>

\* WriteConfig is called again, with the same stack, on what the first call
\* left.
WriteConfigAgain ==
    /\ wcPc = "done"
    /\ wcRun = 1
    /\ wcFirst' = [fs |-> fs, ret |-> wcRet]
    /\ wcRun' = 2
    /\ wcPc' = "mkdir"
    /\ wcIdx' = 1
    /\ wcLog' = <<>>
    /\ wcRet' = "none"
    /\ UNCHANGED <<fs, wcFixed>>

WcNext ==
    \/ WriteConfigMkdir
    \/ WriteConfigPassword
    \/ WriteConfigSignerConfig
    \/ WriteConfigKey
    \/ WriteConfigToml
    \/ WriteConfigAgain

\* --------------------------------------------------------------- getCommand

Schemes == {"http", "https", "ws"}

Hosts == {"rpc.example", "rpc.local"}

\* The port of a URL, "" when the URL names none.
Ports == {"", "9999", "8545"}

\* The path of a URL, "" when the URL names none.
UrlPaths == {"", "/", "/v1"}

ChainIDs == {1, 2021}

\* The empty RPC URL.
NoUrl == [scheme |-> "", host |-> "", port |-> "", path |-> ""]

\* The text of a URL, as the sequence of its tokens:
\* scheme "://" host [":" port] [path].
UrlText(u) ==
    IF u = NoUrl THEN <<>>
    ELSE <<u.scheme, "://", u.host>>
         \o (IF u.port = "" THEN <<>> ELSE <<":", u.port>>)
         \o (IF u.path = "" THEN <<>> ELSE <<u.path>>)

\* url.Parse: the scheme is what precedes "://", the authority what follows.
Scheme(text) == IF Len(text) >= 2 /\ text[2] = "://" THEN text[1] ELSE ""

\* URL.Hostname(): the authority without its port.
Hostname(text) == IF Len(text) >= 3 /\ text[2] = "://" THEN text[3] ELSE ""

HasPort(text) == Len(text) >= 5 /\ text[4] = ":"

\* URL.Port(): what follows the colon of the authority, "" without one.
Port(text) == IF HasPort(text) THEN text[5] ELSE ""

\* URL.Path: what follows the authority, "" when nothing does.
Path(text) ==
    IF HasPort(text)
    THEN (IF Len(text) >= 6 THEN text[6] ELSE "")
    ELSE (IF Len(text) >= 4 THEN text[4] ELSE "")

\* A port of 80 assumed for every URL that names none and is not https.
DownstreamPortDefault80(scheme, port) ==
    IF port # "" THEN port ELSE IF scheme = "https" THEN "443" ELSE "80"

\* The port handed to the signer: the port of the URL, 443 for an https URL
\* that names none.
DownstreamPort(scheme, port) ==
    IF scheme = "https" /\ port = "" THEN "443" ELSE port

\* The flags of the Java signer, in the order getCommand appends them; a
\* flag is its name followed by its value, if it has one.
EthsignerCommand(text, id) ==
    <<  <<"--logging=DEBUG">>,
        <<"--chain-id=", ToString(id)>>,
        <<"--downstream-http-host=", Hostname(text)>> >>
    \o (IF Scheme(text) = "https"
        THEN << <<"--downstream-http-tls-enabled">> >> ELSE <<>>)
    \o (IF Path(text) # "" /\ Path(text) # "/"
        THEN << <<"--downstream-http-path=", Path(text)>> >> ELSE <<>>)
    \o <<  <<"--downstream-http-port=",
             DownstreamPort(Scheme(text), Port(text))>>,
           <<"multikey-signer">>,
           <<"--directory=/data/keystore">> >>

CmdInit ==
    /\ useJavaSigner \in BOOLEAN
    /\ urlParts \in {NoUrl} \cup
           [scheme : Schemes, host : Hosts, port : Ports, path : UrlPaths]
    /\ rpcURL = UrlText(urlParts)
    /\ chainID \in ChainIDs
    /\ command = <<>>
    /\ cmdPc = "call"

CmdIdle ==
    /\ useJavaSigner = FALSE
    /\ urlParts = NoUrl
    /\ rpcURL = <<>>
    /\ chainID = 1
    /\ command = <<>>
    /\ cmdPc = "call"

getCommand ==
    /\ cmdPc = "call"
    /\ IF ~useJavaSigner
       THEN cmdPc' = "done" /\ command' = <<>>
       ELSE IF rpcURL = <<>>
            THEN cmdPc' = "panic" /\ command' = <<>>
            ELSE /\ cmdPc' = "done"
                 /\ command' = EthsignerCommand(rpcURL, chainID)
    /\ UNCHANGED <<useJavaSigner, urlParts, rpcURL, chainID, leaked, runVars,
                   retryVars, composeVars, setupVars, wcVars>>

CmdNext == getCommand

\* ------------------------------------- RunDockerCommandRetry over runCommand

\* What the retry loop and the processes left behind do not touch.
seqFixed == <<verbose, isLogCmd, ctxCanceled, script, exitCode, hangs, launch,
              faultAt, retries, behaviour, composeVars, setupVars, wcVars,
              cmdVars>>

\* RunDockerCommand (lines 293-298): a new exec.Cmd, new channels and new
\* goroutines for the same command.  A process of the invocation before that
\* is still running stays alive.
StartInvocation ==
    /\ leaked' = leaked + (IF procState = "running" THEN 1 ELSE 0)
    /\ procState' = "unstarted"
    /\ procPos' = [s \in Streams |-> 0]
    /\ procOpen' = [s \in Streams |-> TRUE]
    /\ pipe' = [s \in Streams |-> <<>>]
    /\ readEndClosed' = FALSE
    /\ pipeCmdPc' = "run"
    /\ rdPc' = [s \in Streams |-> "idle"]
    /\ rdBuf' = [s \in Streams |-> <<>>]
    /\ rdLine' = [s \in Streams |-> <<>>]
    /\ chanClosed' = [s \in Streams |-> FALSE]
    /\ mainPc' = "loop"
    /\ outputBuff' = <<>>
    /\ result' = NoResult
    /\ appended' = <<>>
    /\ printed' = <<>>
    /\ invoked' = invoked + 1

\* Lines 281-284: the invocation has failed and attempts are left.
RetryAgain ==
    /\ retryPc = "call"
    /\ mainPc = "returned"
    /\ result.status = "err" /\ CanRetry(attempt, retries)
    /\ attempt' = attempt + 1
    /\ StartInvocation
    /\ UNCHANGED <<seqFixed, retryPc, retryErr>>

\* Lines 285-290: return err, or break and return nil.
RetryReturn ==
    /\ retryPc = "call"
    /\ mainPc = "returned"
    /\ ~(result.status = "err" /\ CanRetry(attempt, retries))
    /\ retryPc' = "done"
    /\ retryErr' = IF result.status = "err"
                   THEN [kind |-> result.err.kind, invocation |-> invoked]
                   ELSE NoErr
    /\ UNCHANGED <<seqFixed, attempt, invoked, leaked, runVars>>

\* A process left behind by an earlier invocation exits.
LeftBehindExit ==
    /\ leaked > 0
    /\ ~hangs
    /\ leaked' = leaked - 1
    /\ UNCHANGED <<retryVars, composeVars, setupVars, wcVars, cmdVars, runVars>>

SeqInit ==
    /\ RunInit
    /\ Len(script["stdout"]) + Len(script["stderr"]) <= MaxSeqWrite
    /\ retries \in 0..MaxRetries
    /\ behaviour = [i \in 1..(MaxRetries + 2) |-> "ok"]
    /\ attempt = 0
    /\ invoked = 1
    /\ retryPc = "call"
    /\ retryErr = NoErr
    /\ leaked = 0

SeqNext ==
    \/ RunNext
    \/ RetryAgain
    \/ RetryReturn
    \/ LeftBehindExit

\* ------------------------------------------------------------ specifications

vars == <<runVars, retryVars, composeVars, setupVars, wcVars, cmdVars,
         leaked>>

Init ==
    /\ RunInit /\ RetryIdle /\ ComposeIdle /\ SetupIdle /\ WcIdle
    /\ CmdIdle /\ leaked = 0

Next == RunNext

Spec == Init /\ [][Next]_vars

CancelNext == RunNext \/ CancelContext

CancelSpec == Init /\ [][CancelNext]_vars

RetryStart ==
    /\ RetryInit /\ RunIdle /\ ComposeIdle /\ SetupIdle /\ WcIdle
    /\ CmdIdle /\ leaked = 0

RetrySpec == RetryStart /\ [][RetryNext]_vars

ComposeStart ==
    /\ ComposeInit /\ RunIdle /\ RetryIdle /\ SetupIdle /\ WcIdle
    /\ CmdIdle /\ leaked = 0

ComposeSpec == ComposeStart /\ [][ComposeNext]_vars

SetupStart ==
    /\ SetupInit /\ RunIdle /\ RetryIdle /\ ComposeIdle /\ WcIdle
    /\ CmdIdle /\ leaked = 0

SetupSpec == SetupStart /\ [][SetupNext]_vars

WriteConfigStart ==
    /\ WcInit /\ setupPc = "createVolume" /\ importIdx = 1 /\ setupLog = <<>>
    /\ setupErr = NoStepErr /\ RunIdle /\ RetryIdle /\ ComposeIdle
    /\ CmdIdle /\ leaked = 0

WriteConfigSpec == WriteConfigStart /\ [][WcNext]_vars

CommandStart ==
    /\ CmdInit /\ RunIdle /\ RetryIdle /\ ComposeIdle /\ SetupIdle /\ WcIdle
    /\ leaked = 0

CommandSpec == CommandStart /\ [][CmdNext]_vars

SequenceStart ==
    /\ SeqInit /\ ComposeIdle /\ SetupIdle /\ WcIdle /\ CmdIdle

SequenceSpec == SequenceStart /\ [][SeqNext]_vars

\* ------------------------------------------------------------------ claims

\* Whether m is an interleaving of a and b: every byte of a and of b, each in
\* its order, and nothing else.
RECURSIVE IsMerge(_, _, _)
IsMerge(m, a, b) ==
    IF m = <<>> THEN a = <<>> /\ b = <<>>
    ELSE \/ a # <<>> /\ Head(a) = Head(m) /\ IsMerge(Tail(m), Tail(a), b)
         \/ b # <<>> /\ Head(b) = Head(m) /\ IsMerge(Tail(m), a, Tail(b))

\* C1: when runCommand returns success (the process exited with code 0), the
\* returned output holds every byte the process wrote to stdout and stderr,
\* each stream in its order, nothing dropped and nothing added, an
\* unterminated last line included.
C1_OutputHoldsEveryByte ==
    (mainPc = "returned" /\ result.status = "ok")
        => IsMerge(result.output, script["stdout"], script["stderr"])

\* C2: when the process exits with a non-zero code (and no read of a pipe
\* failed), runCommand returns a failure whose message holds the exit code
\* and all output of both streams; it never returns success.
C2_NonZeroExitCarriesAllOutput ==
    (mainPc = "returned" /\ launch = "ok" /\ faultAt = "none" /\ exitCode # 0)
        => /\ result.status = "err"
           /\ result.err.kind = "exit"
           /\ result.err.code = exitCode
           /\ IsMerge(result.err.output, script["stdout"], script["stderr"])

\* A process that exits with a non-zero code never makes runCommand return
\* success (the half of C2 that the capture loss does not touch).
NonZeroExitIsNeverSuccess ==
    (mainPc = "returned" /\ launch = "ok" /\ exitCode # 0)
        => result.status = "err"

\* The number of invocations that fail before the first one that succeeds
\* (more than any retry count when none succeeds).
FailuresBeforeSuccess ==
    IF \E i \in DOMAIN behaviour : behaviour[i] = "ok"
    THEN (CHOOSE i \in DOMAIN behaviour :
             behaviour[i] = "ok" /\ \A j \in 1..(i - 1) : behaviour[j] # "ok") - 1
    ELSE Len(behaviour)

\* C3: on an operation that fails k times and then succeeds,
\* RunDockerCommandRetry with retries = m >= k returns success after exactly
\* k+1 invocations; with m < k it returns the error of the (m+1)-th
\* invocation after exactly m+1 invocations.
C3_RetryCount ==
    retryPc = "done" =>
        LET k == FailuresBeforeSuccess
        IN  IF retries >= k
            THEN retryErr = NoErr /\ invoked = k + 1
            ELSE /\ retryErr = [kind |-> behaviour[retries + 1],
                                invocation |-> retries + 1]
                 /\ retryErr # NoErr
                 /\ invoked = retries + 1

\* C3 witness: success reached on the third invocation, after two failures.
C3_Witness ==
    retryPc = "done" /\ retryErr = NoErr /\ invoked = 3 /\ attempt = 2

\* C4: for ComposeV1 the one command issued is docker-compose with the
\* arguments unchanged; for ComposeV2 it is docker with "compose" put before
\* the unchanged arguments; for None or no value no command is issued and an
\* error is returned.
C4_ComposeDispatch ==
    composePc = "done" =>
        /\ composeVersion = "ComposeV1" =>
              issued = <<[path |-> "docker-compose", args |-> composeArgs]>>
        /\ composeVersion = "ComposeV2" =>
              issued = <<[path |-> "docker", args |-> <<"compose">> \o composeArgs]>>
        /\ composeVersion \in {"None", "unset"} =>
              issued = <<>> /\ composeErr # "nil"

\* C4 witness: a ComposeV2 dispatch of two arguments has been made.
C4_Witness ==
    composePc = "done" /\ composeVersion = "ComposeV2" /\ Len(composeArgs) = 2

IsImport(e) == e.op = "import"

\* C5: key imports are issued one per member in declared order; the password
\* copy is issued only after all imports were issued and succeeded; a failed
\* import is the last sub-step issued and its error is returned.
C5_ImportsInOrderThenPassword ==
    LET imports == SelectSeq(setupLog, IsImport)
    IN  /\ Len(imports) <= Len(members)
        /\ \A i \in 1..Len(imports) : imports[i].arg = members[i]
        /\ \A i \in 1..Len(setupLog) :
              setupLog[i].op = "copyPassword" =>
                  LET before == SelectSeq(SubSeq(setupLog, 1, i - 1), IsImport)
                  IN  /\ Len(before) = Len(members)
                      /\ \A j \in 1..Len(before) : before[j].ok
        /\ \A i \in 1..Len(setupLog) :
              (setupLog[i].op = "import" /\ ~setupLog[i].ok) =>
                  /\ i = Len(setupLog)
                  /\ setupPc = "done"
                  /\ setupErr = StepErr("import", setupLog[i].arg)

\* C5 witness: a stack of three members, not declared in sorted order, whose
\* second import failed.
C5_Witness ==
    /\ Len(members) = 3
    /\ members[1] > members[2]
    /\ setupPc = "done"
    /\ \E i \in 1..Len(setupLog) :
          setupLog[i] = Step("import", members[2], FALSE)

\* C6: a sub-step of FirstTimeSetup that fails is the last one issued, and
\* its error is what FirstTimeSetup returns.
C6_EveryFailureAborts ==
    \A i \in 1..Len(setupLog) :
        ~setupLog[i].ok =>
            /\ i = Len(setupLog)
            /\ setupPc = "done"
            /\ setupErr = StepErr(setupLog[i].op, setupLog[i].arg)

\* C7: a step of WriteConfig that fails is the last step of the run, and the
\* run returns its error; WriteConfig returns nil only when no step failed.
C7_FirstErrorReturned ==
    /\ \A i \in 1..Len(wcLog) :
          ~wcLog[i].ok =>
              i = Len(wcLog) /\ wcPc = "done" /\ wcRet = wcLog[i].op
    /\ (wcPc = "done" /\ wcRet = "nil") =>
          \A i \in 1..Len(wcLog) : wcLog[i].ok

\* C8: a second WriteConfig, on what a first WriteConfig that returned nil
\* left, returns nil and leaves the same files with the same contents.
C8_SecondRunSame ==
    (wcRun = 2 /\ wcPc = "done" /\ wcFirst.ret = "nil")
        => wcRet = "nil" /\ fs = wcFirst.fs

\* C8 witness: the second run has ended on a tree in which the first run
\* wrote every file of a stack of two members over older contents.
C8_Witness ==
    /\ wcRun = 2 /\ wcPc = "done" /\ wcFirst.ret = "nil"
    /\ Len(members) = 2
    /\ Len(wcLog) = 7
    /\ fs[PasswordPath] = File("correcthorsebatterystaple")
    /\ fs[SignerConfigPath] = File("signerconfig")
    /\ \A a \in 1..2 : fs[KeyPath(a)].kind = "file" /\ fs[TomlPath(a)].kind = "file"

\* No goroutine of the invocation is running or blocked: pipeCommand has
\* ended, and each drainer has ended or was never started.
NoDrainerRunning ==
    /\ pipeCmdPc = "done"
    /\ \A s \in Streams : rdPc[s] \in {"idle", "done"}

\* C9: once the context of an invocation in flight is canceled and nothing
\* more can happen, the external process is not alive, no drainer is left,
\* and runCommand has returned.
C9_CancelEndsInvocation ==
    (ctxCanceled /\ ~ENABLED CancelNext)
        => /\ procState # "running"
           /\ NoDrainerRunning
           /\ mainPc = "returned"

\* C10: RunDockerCommandRetry issues no invocation after one whose process
\* failed to start.
C10_LaunchFailureNotRetried ==
    \A i \in 1..invoked : behaviour[i] = "launchErr" => i = invoked

\* An invocation whose process could not be started ends in a failure of
\* runCommand (the "launchErr" outcome of RunDockerCommand).
LaunchFailureIsReported ==
    (mainPc = "returned" /\ launch # "ok") => result.status = "err"

\* The flags of the built command line whose name is n.
FlagsNamed(n) == {i \in 1..Len(command) : command[i][1] = n}

\* The value of the flag at position i of the built command line.
FlagValue(i) == command[i][2]

\* C11: with the Java signer compiled in, the command line getCommand builds
\* has a TLS flag exactly when the scheme of the RPC URL is https; one host
\* flag, carrying the host of the URL; one port flag, carrying the port of the
\* URL when it names one, 443 for an https URL that names none and nothing
\* (no default of 80) for any other URL that names none; and a path flag
\* exactly when the path of the URL is neither empty nor "/", carrying it.
C11_CommandFromUrl ==
    (cmdPc = "done" /\ useJavaSigner) =>
        /\ (FlagsNamed("--downstream-http-tls-enabled") # {})
               <=> (urlParts.scheme = "https")
        /\ Cardinality(FlagsNamed("--downstream-http-host=")) = 1
        /\ \A i \in FlagsNamed("--downstream-http-host=") :
               FlagValue(i) = urlParts.host
        /\ Cardinality(FlagsNamed("--downstream-http-port=")) = 1
        /\ \A i \in FlagsNamed("--downstream-http-port=") :
               FlagValue(i) =
                   IF urlParts.port # "" THEN urlParts.port
                   ELSE IF urlParts.scheme = "https" THEN "443" ELSE ""
        /\ (FlagsNamed("--downstream-http-path=") # {})
               <=> (urlParts.path \notin {"", "/"})
        /\ \A i \in FlagsNamed("--downstream-http-path=") :
               FlagValue(i) = urlParts.path

\* An http URL without a port and with the root path went through getCommand.
C11_Witness ==
    /\ cmdPc = "done" /\ useJavaSigner
    /\ urlParts.scheme = "http" /\ urlParts.port = "" /\ urlParts.path = "/"
    /\ command # <<>>

\* An empty RPC URL is fatal when the Java signer is compiled in.
EmptyUrlPanics ==
    (useJavaSigner /\ rpcURL = <<>> /\ cmdPc # "call") => cmdPc = "panic"

\* C12: the capture loop is left for cmd.Wait() only once both the stdout
\* channel and the stderr channel are closed, whatever the flags are.
C12_LoopExitsWhenBothClosed ==
    mainPc = "wait" => \A s \in Streams : chanClosed[s]

\* C13: an invocation whose process writes its lines, closes its streams and
\* exits, and none of whose reads fails, is never stuck before runCommand has
\* returned: as long as it has not returned some step can be taken, so the
\* process is never blocked on a full pipe while runCommand waits for it.
C13_NoDeadlock ==
    (launch = "ok" /\ faultAt = "none" /\ ~hangs /\ mainPc # "returned")
        => ENABLED Next

\* C14: a failure returned for a failed read of a pipe embeds what the capture
\* buffer held when the error was received.
C14_ReadErrorEmbedsBuffer ==
    (mainPc = "returned" /\ result.status = "err" /\ result.err.kind = "read")
        => result.err.output = outputBuff

\* C15: every failure runCommand returns, of whatever kind, carries the
\* command line of the invocation and the output captured so far.
C15_FailureCarriesCommandAndOutput ==
    (mainPc = "returned" /\ result.status = "err")
        => result.err.cmdline /\ result.err.output = outputBuff

\* C18: when the process is one that exits, once runCommand has returned and
\* nothing more can happen no drainer is left blocked: pipeCommand and both
\* readPipe goroutines have ended.
C18_NoDrainerLeaked ==
    (~hangs /\ mainPc = "returned" /\ ~ENABLED Next) => NoDrainerRunning

\* C16: with verbosity or the log-command flag set, the lines echoed are
\* exactly the lines appended to the capture buffer, of both streams and in
\* the same order; with neither set, nothing is echoed.
C16_EchoFollowsFlags ==
    printed = IF verbose \/ isLogCmd THEN appended ELSE <<>>

\* The bytes of the lines of stream s in a sequence of <<stream, line>> pairs,
\* in their order.
RECURSIVE BytesOf(_, _)
BytesOf(s, lines) ==
    IF lines = <<>> THEN <<>>
    ELSE (IF lines[1][1] = s THEN lines[1][2] ELSE <<>>)
         \o BytesOf(s, Tail(lines))

\* All bytes of a sequence of <<stream, line>> pairs.
RECURSIVE AllBytes(_)
AllBytes(lines) ==
    IF lines = <<>> THEN <<>> ELSE lines[1][2] \o AllBytes(Tail(lines))

IsPrefix(a, b) == Len(a) <= Len(b) /\ a = SubSeq(b, 1, Len(a))

\* Whether l is one line: bytes other than the newline, then the newline.
IsLine(l) == l # <<>> /\ IndexOfNL(l) = Len(l)

\* C19: at every step the capture buffer is made of whole lines, and the
\* lines in it that came from one stream are, in their order and without
\* repetition, a prefix of what the process has written to that stream.
C19_PerStreamPrefix ==
    /\ outputBuff = AllBytes(appended)
    /\ \A i \in 1..Len(appended) : IsLine(appended[i][2])
    /\ \A s \in Streams :
           IsPrefix(BytesOf(s, appended), SubSeq(script[s], 1, procPos[s]))

\* Two different lines of stdout are in the buffer, the process having
\* written them in that order.
C19_Witness ==
    /\ Len(appended) = 2
    /\ appended[1][1] = "stdout" /\ appended[2][1] = "stdout"
    /\ appended[1][2] # appended[2][2]
    /\ outputBuff = script["stdout"]

\* The whole lines of b: b through its last newline.
CompleteLines(b) ==
    LET ends == {i \in 1..Len(b) : b[i] = NL}
    IN  SubSeq(b, 1, IF ends = {} THEN 0
                     ELSE CHOOSE i \in ends : \A j \in ends : j <= i)

\* A successful invocation of a process that writes to stderr only returns
\* every whole line the process wrote.
StderrOnlyFullyCaptured ==
    (mainPc = "returned" /\ result.status = "ok" /\ script["stdout"] = <<>>)
        => result.output = CompleteLines(script["stderr"])

\* With both flags off, that is the only successful result there is.
FlagsOffStderrOnlyFullyCaptured ==
    (~verbose /\ ~isLogCmd) => StderrOnlyFullyCaptured

\* C20: the results an invocation can have are the same whatever the flags
\* are; so what is the only successful result of a process with both flags
\* off is its only successful result with a flag on as well.
C20_ResultIndependentOfFlags ==
    (verbose \/ isLogCmd) => StderrOnlyFullyCaptured

\* The external processes started by this core that are alive.
Alive == leaked + (IF procState = "running" THEN 1 ELSE 0)

\* C17: at every moment at most one external process started by the retry
\* loop is alive: an attempt is started only once the process of the attempt
\* before has exited.
C17_OneProcessAtATime == Alive <= 1

\* As long as no read of a pipe fails while the process runs, invocations are
\* sequential: runCommand returns only after cmd.Wait().
SequentialWithoutReadFault == faultAt = "none" => Alive <= 1

====
